---- MODULE Spec2Model ----
(***************************************************************************)
(* The data-driven view state of the catalog screen (Home.tsx) and of the  *)
(* course-detail screen (CourseDetailPage): the asynchronous fetch with    *)
(* its isMounted guard, the filter projection, the render branches and the *)
(* syllabus-phase selection.                                               *)
(*                                                                         *)
(* One behaviour follows one screen instance: `screen` says which of the   *)
(* two components is the one the router mounted.  The two components share *)
(* no state, so the other one's variables keep their useState defaults.    *)
(***************************************************************************)
EXTENDS Integers, Sequences, FiniteSets, TLC

\* ------------------------------------------------------------------ bounds
\* gateway calls one screen instance issues in one behaviour
MaxFetches == 2
\* syllabus phases of a fetched course
MaxPhases == 2
\* courses in one catalog response
MaxCourses == 3
\* prices of a fetched course (besides the pair 1000 / 750)
MaxPrice == 3

\* the longest course name
MaxNameLen == 3

\* --------------------------------------------------------------- constants
\* limit of the catalog query
QueryLimit == 6
\* const WEEKS_PER_PHASE = 4
WEEKS_PER_PHASE == 4
\* course.syllabusPhases?.length || 6
DefaultMonths == 6

VARIABLES
    screen,        \* "home" | "detail": the mounted route component
    \* Home.tsx
    courses,       \* useState<Course[]>([])
    homeLoading,   \* useState<boolean>(true)
    homeError,     \* useState<string>("")
    filter,        \* useState<FilterType>("All")
    homeLife,      \* "init" | "mounted" | "unmounted"
    homeFetches,   \* log of getAllCourses calls, one per run of the effect
    \* CourseDetailPage
    id,            \* useParams().id
    activePhase,   \* useState<number>(0)
    course,        \* useState<CourseDetail | null>(null)
    loading,       \* useState<boolean>(true)
    error,         \* useState<string | null>(null)
    imageError,    \* useState<boolean>(false)
    imgSrc,        \* src of the certificate <img> element in the DOM
    life,          \* "init" | "mounted" | "unmounted" | "crashed"
    fetches,       \* log of getCourseById calls, one per run of the effect
    \* both
    unhandledRejection  \* a rejection left the async function uncaught

homeVars == <<courses, homeLoading, homeError, filter, homeLife, homeFetches>>
detailVars ==
    <<id, activePhase, course, loading, error, imageError, imgSrc, life, fetches>>
vars == <<screen, homeVars, detailVars, unhandledRejection>>

\* ------------------------------------------------------------------ values
\* the route parameter when the route carries none (undefined / "")
NoId == ""
Ids == {"a", "b"}

\* JavaScript null in a string | null state
Null == "<null>"
\* JavaScript truthiness of a string | null
Truthy(s) == s # Null /\ s # ""

CourseStatus == {"Online", "Offline", "Hybrid"}
FilterType == CourseStatus \cup {"All"}

\* values a rejected gateway promise can carry: an Error with a message, an
\* Error with an empty message, a value that is not an Error
Thrown ==
    { [isError |-> TRUE, message |-> "Network Error"],
      [isError |-> TRUE, message |-> ""],
      [isError |-> FALSE, message |-> ""] }

\* a field the record does not carry (undefined), for number-valued fields
Undefined == 0 - 1

\* technicalSpecs?: TechnicalSpec[]: absent, or a list (possibly empty)
NoSpecs == [present |-> FALSE, items |-> <<>>]
SpecList(items) == [present |-> TRUE, items |-> items]

\* a string is the sequence of its characters; Tab is the tab character
Tab == "\t"
Chars == {"a", " ", Tab}
DefaultName == <<"a", " ", "a">>

\* course?: CourseDetail | null.  syllabusPhases holds the length of the list,
\* or Undefined when the record carries no list.
NullCourse == [null |-> TRUE]
FullCourse(i, p, op, dp, ts, st, lang) ==
    [id |-> i, name |-> DefaultName, syllabusPhases |-> p, originalPrice |-> op,
     discountedPrice |-> dp, technicalSpecs |-> ts, status |-> st,
     language |-> lang]
CourseDetail(i, p) == FullCourse(i, p, 1000, 750, NoSpecs, "Online", "English")

Resolve(v) == [kind |-> "resolve", value |-> v]
Reject(e) == [kind |-> "reject", value |-> e]
NoOutcome == [kind |-> "none"]

\* what getCourseById(i) can settle with: a record, an absent record, a rejection
DetailOutcomes(i) ==
    { Resolve(CourseDetail(i, p)) : p \in {Undefined} \cup 0..MaxPhases }
        \cup { Resolve(NullCourse) }
        \cup { Reject(e) : e \in Thrown }

\* a catalog response: an array of courses, or a value that is not an array
Array(items) == [isArray |-> TRUE, items |-> items]
NotArray == [isArray |-> FALSE, items |-> <<>>]

RECURSIVE StatusLists(_)
StatusLists(n) ==
    IF n = 0 THEN {<<>>}
    ELSE LET shorter == StatusLists(n - 1)
         IN  shorter \cup { Append(s, st) : s \in { x \in shorter : Len(x) = n - 1 },
                                            st \in CourseStatus }

\* the course at position k carries id k: the ids of one response are unique
CourseList(sts) == [k \in 1..Len(sts) |-> [id |-> k, status |-> sts[k]]]

HomeOutcomes ==
    { Resolve(Array(CourseList(sts))) : sts \in StatusLists(MaxCourses) }
        \cup { Resolve(NotArray) }
        \cup { Reject(e) : e \in Thrown }

\* ------------------------------------------------------------ Home.tsx
\* ArrayFilter with the matches pushed in front: the order is reversed
RECURSIVE ArrayFilterReversed(_, _)
ArrayFilterReversed(arr, f) ==
    IF arr = <<>> THEN <<>>
    ELSE ArrayFilterReversed(Tail(arr), f)
             \o (IF Head(arr).status = f THEN <<Head(arr)>> ELSE <<>>)

\* Array.prototype.filter with the predicate course.status === f
RECURSIVE ArrayFilter(_, _)
ArrayFilter(arr, f) ==
    IF arr = <<>> THEN <<>>
    ELSE (IF Head(arr).status = f THEN <<Head(arr)>> ELSE <<>>)
             \o ArrayFilter(Tail(arr), f)

\* FilteredCoursesOf without its Array.isArray test: filtering a value that is
\* no array throws
FilteredCoursesUnguarded(cs, f) ==
    IF ~cs.isArray THEN <<"TypeError">>
    ELSE IF f = "All" THEN cs.items
    ELSE ArrayFilter(cs.items, f)

\* the body of the filteredCourses memo
FilteredCoursesOf(cs, f) ==
    IF ~cs.isArray THEN <<>>
    ELSE IF f = "All" THEN cs.items
    ELSE ArrayFilter(cs.items, f)

filteredCourses == FilteredCoursesOf(courses, filter)

\* err instanceof Error ? err.message : "Failed to fetch courses"
HomeErrorMessage(e) == IF e.isError THEN e.message ELSE "Failed to fetch courses"

\* the query fetchCourses passes to getAllCourses
HomeQuery == [sort |-> "-createdAt", limit |-> QueryLimit]

\* HomeIsMounted without the test
HomeIsMountedIgnored(f) == TRUE

\* the isMounted test of fetchCourses
HomeIsMounted(f) == f.isMounted

\* try { await ... } catch (err) { ... }: the catch clause has no filter, every
\* rejection of the awaited promise enters it
HomeCatches(o) == o.kind = "reject"

\* the effect's clean-up: isMounted = false in every closure still alive
HomeCleanup(fs) == [g \in DOMAIN fs |-> [fs[g] EXCEPT !.isMounted = FALSE]]

\* fetchCourses up to its await: setLoading(true); setError(""); the call
HomeRunEffect ==
    /\ homeLoading' = TRUE
    /\ homeError' = ""
    /\ homeFetches' = Append(homeFetches,
           [query |-> HomeQuery, isMounted |-> TRUE, status |-> "pending"])

\* the component mounts and its effect runs once
HomeMount ==
    /\ screen = "home"
    /\ homeLife = "init"
    /\ homeLife' = "mounted"
    /\ HomeRunEffect
    /\ UNCHANGED <<screen, courses, filter, detailVars, unhandledRejection>>

\* fetchCourses of a component that retries by itself: a rejected call is
\* followed by another call
HomeSettleRetrying(g, o) ==
    /\ homeFetches[g].status = "pending"
    /\ LET settled == [homeFetches EXCEPT ![g].status = "settled"]
       IN  IF HomeIsMounted(homeFetches[g])
           THEN /\ courses' = IF o.kind = "resolve" THEN o.value ELSE courses
                /\ homeError' = IF o.kind = "reject"
                                THEN HomeErrorMessage(o.value) ELSE homeError
                /\ homeLoading' = FALSE
                /\ homeFetches' =
                       IF o.kind = "reject" /\ Len(homeFetches) < MaxFetches
                       THEN Append(settled, [query |-> HomeQuery,
                                isMounted |-> TRUE, status |-> "pending"])
                       ELSE settled
           ELSE /\ homeFetches' = settled
                /\ UNCHANGED <<courses, homeError, homeLoading>>
    /\ unhandledRejection' =
           (unhandledRejection \/ (o.kind = "reject" /\ ~HomeCatches(o)))
    /\ UNCHANGED <<screen, filter, homeLife, detailVars>>

\* fetchCourses after its await: the promise of call g settles with outcome o
HomeSettle(g, o) ==
    /\ homeFetches[g].status = "pending"
    /\ homeFetches' = [homeFetches EXCEPT ![g].status = "settled"]
    /\ IF HomeIsMounted(homeFetches[g])
       THEN /\ courses' = IF o.kind = "resolve" THEN o.value ELSE courses
            /\ homeError' = IF o.kind = "reject" THEN HomeErrorMessage(o.value)
                            ELSE homeError
            /\ homeLoading' = FALSE
       ELSE UNCHANGED <<courses, homeError, homeLoading>>
    /\ unhandledRejection' =
           (unhandledRejection \/ (o.kind = "reject" /\ ~HomeCatches(o)))
    /\ UNCHANGED <<screen, filter, homeLife, detailVars>>

\* the blocks below the filter buttons with "!error" left out of the grid's
\* condition
HomeRenderedGridWithBanner ==
    (IF homeLoading THEN {"spinner"} ELSE {})
        \cup (IF homeError # "" /\ ~homeLoading THEN {"banner"} ELSE {})
        \cup (IF ~homeLoading THEN {"grid"} ELSE {})

\* the blocks the render puts below the filter buttons: {loading && ...},
\* {error && !loading && ...}, {!loading && !error && ...}
HomeRendered ==
    (IF homeLoading THEN {"spinner"} ELSE {})
        \cup (IF homeError # "" /\ ~homeLoading THEN {"banner"} ELSE {})
        \cup (IF ~homeLoading /\ homeError = "" THEN {"grid"} ELSE {})

\* handleFilterChange of a component whose fetch effect depends on [filter]:
\* the effect runs again on every change
handleFilterChangeRefetching(newFilter) ==
    /\ homeLife = "mounted"
    /\ filter' = newFilter
    /\ homeLoading' = TRUE
    /\ homeError' = ""
    /\ homeFetches' = Append(HomeCleanup(homeFetches),
           [query |-> HomeQuery, isMounted |-> TRUE, status |-> "pending"])
    /\ UNCHANGED <<screen, courses, homeLife, detailVars, unhandledRejection>>

\* a click on one of the filter buttons
handleFilterChange(newFilter) ==
    /\ homeLife = "mounted"
    /\ filter' = newFilter
    /\ UNCHANGED <<screen, courses, homeLoading, homeError, homeLife, homeFetches,
                   detailVars, unhandledRejection>>

\* a Retry button that only dismisses the banner: no reload, no new call
HomeRetryNoFetch ==
    /\ homeLife = "mounted"
    /\ homeError # "" /\ ~homeLoading
    /\ Len(homeFetches) < MaxFetches
    /\ homeLoading' = TRUE
    /\ homeError' = ""
    /\ UNCHANGED <<screen, courses, filter, homeLife, homeFetches, detailVars,
                   unhandledRejection>>

\* the Retry button of the error banner: window.location.reload().  The page
\* starts again: fresh state, the effect runs, the promises of the old page
\* are gone with it.
HomeRetry ==
    /\ homeLife = "mounted"
    /\ homeError # "" /\ ~homeLoading
    /\ Len(homeFetches) < MaxFetches
    /\ courses' = Array(<<>>)
    /\ filter' = "All"
    /\ homeLoading' = TRUE
    /\ homeError' = ""
    /\ homeFetches' = Append(
           [g \in DOMAIN homeFetches |->
               [homeFetches[g] EXCEPT !.isMounted = FALSE,
                   !.status = IF @ = "pending" THEN "dropped" ELSE @]],
           [query |-> HomeQuery, isMounted |-> TRUE, status |-> "pending"])
    /\ UNCHANGED <<screen, homeLife, detailVars, unhandledRejection>>

\* the component unmounts: the effect's clean-up runs
HomeUnmount ==
    /\ homeLife = "mounted"
    /\ homeLife' = "unmounted"
    /\ homeFetches' = HomeCleanup(homeFetches)
    /\ UNCHANGED <<screen, courses, homeLoading, homeError, filter, detailVars,
                   unhandledRejection>>

NextHome ==
    \/ HomeMount
    \/ \E g \in DOMAIN homeFetches : \E o \in HomeOutcomes : HomeSettle(g, o)
    \/ \E f \in FilterType : handleFilterChange(f)
    \/ HomeRetry
    \/ HomeUnmount

\* ------------------------------------------------------ CourseDetailPage
\* syllabusPhasesOf with the "|| 6" of the Duration entry in place of "|| []"
syllabusPhasesOrSix(c) ==
    IF c = NullCourse \/ c.syllabusPhases = Undefined \/ c.syllabusPhases = 0
    THEN DefaultMonths
    ELSE c.syllabusPhases

\* course?.syllabusPhases || []  (its length)
syllabusPhasesOf(c) ==
    IF c = NullCourse \/ c.syllabusPhases = Undefined THEN 0 ELSE c.syllabusPhases

syllabusPhases == syllabusPhasesOf(course)

\* syllabusPhases.length * WEEKS_PER_PHASE
totalWeeks == syllabusPhases * WEEKS_PER_PHASE

\* a JavaScript number: a finite integer, NaN, Infinity or -Infinity
Num(n) == [kind |-> "finite", value |-> n]
NaN == [kind |-> "NaN"]
Infinity == [kind |-> "Infinity"]
NegInfinity == [kind |-> "-Infinity"]

\* MathRound with Math.floor in its place
MathFloor(n, d) == n \div d

\* Math.round of the quotient n / d, d > 0: the nearest integer, a tie upwards
MathRound(n, d) == (2 * n + d) \div (2 * d)

\* Math.round(((originalPrice - discountedPrice) / originalPrice) * 100) in
\* JavaScript arithmetic: undefined operands give NaN, 0 / 0 gives NaN, a
\* non-zero numerator over 0 gives an infinity of its sign, and Math.round
\* keeps NaN and the infinities
JsDiscount(op, dp) ==
    IF op = Undefined \/ dp = Undefined THEN NaN
    ELSE IF op = 0
         THEN (IF dp = 0 THEN NaN ELSE IF dp > 0 THEN NegInfinity ELSE Infinity)
    ELSE Num(MathRound((op - dp) * 100, op))

\* the body of the discountPercent memo
discountPercentOf(c) ==
    IF c = NullCourse THEN Num(0)
    ELSE JsDiscount(c.originalPrice, c.discountedPrice)

discountPercent == discountPercentOf(course)

\* discountPercent > 0, the condition of the discount banner
DiscountBanner(x) == x.kind = "Infinity" \/ (x.kind = "finite" /\ x.value > 0)

\* the fallback without the "|| 6" of its Duration entry
FallbackSpecsNoDefault(c) ==
    << [label |-> "Duration", value |-> <<syllabusPhasesOf(c), "Months">>,
        icon |-> "clock"],
       [label |-> "Mode", value |-> c.status, icon |-> "monitor"],
       [label |-> "Language", value |-> c.language, icon |-> "language"] >>

\* the triple behind ||: Duration, Mode, Language
FallbackSpecs(c) ==
    << [label |-> "Duration",
        value |-> <<IF syllabusPhasesOf(c) # 0 THEN syllabusPhasesOf(c)
                    ELSE DefaultMonths, "Months">>,
        icon |-> "clock"],
       [label |-> "Mode", value |-> c.status, icon |-> "monitor"],
       [label |-> "Language", value |-> c.language, icon |-> "language"] >>

\* the body of the technicalSpecs memo: course.technicalSpecs || [...].  An
\* array is truthy also when it is empty.
technicalSpecsOf(c) ==
    IF c = NullCourse THEN <<>>
    ELSE IF c.technicalSpecs.present THEN c.technicalSpecs.items
    ELSE FallbackSpecs(c)

technicalSpecs == technicalSpecsOf(course)

\* String.prototype.split with a one-character separator: the pieces between
\* the occurrences of the separator, empty pieces included
RECURSIVE StringSplit(_, _)
StringSplit(str, sep) ==
    IF \A k \in 1..Len(str) : str[k] # sep THEN <<str>>
    ELSE LET k == CHOOSE n \in 1..Len(str) :
                      str[n] = sep /\ \A m \in 1..(n - 1) : str[m] # sep
         IN  <<SubSeq(str, 1, k - 1)>>
                 \o StringSplit(SubSeq(str, k + 1, Len(str)), sep)

\* the body of the courseNameParts memo
courseNamePartsOf(c) ==
    IF c = NullCourse THEN <<>> ELSE StringSplit(c.name, " ")

courseNameParts == courseNamePartsOf(course)

\* the render branches: if (loading) / if (error) / if (!course) / the page
ViewOf(l, e, c) ==
    IF l THEN "loading"
    ELSE IF Truthy(e) THEN "error"
    ELSE IF c = NullCourse THEN "notfound"
    ELSE "course"

View == ViewOf(loading, error, course)

\* the certificate <img> is part of the loaded-course page of a mounted screen
CourseShown(lf, l, e, c) == lf = "mounted" /\ ViewOf(l, e, c) = "course"

\* what a render does to the <img>: the element is created with the src prop,
\* src={course.certificateImage || DEFAULT_CERTIFICATE_IMAGE}, when the page
\* appears, is kept as it is (the prop has not changed) while the page stays,
\* and is removed with the page
Render ==
    imgSrc' = IF ~CourseShown(life', loading', error', course') THEN "none"
              ELSE IF CourseShown(life, loading, error, course) THEN imgSrc
              ELSE "course"

\* syllabusPhases[activePhase].title in the syllabus section: the element is
\* undefined when the index is past the list, and reading .title of it throws
RenderThrowsOf(l, e, c, a) ==
    /\ ViewOf(l, e, c) = "course"
    /\ syllabusPhasesOf(c) > 0
    /\ ~(a \in 0..(syllabusPhasesOf(c) - 1))

\* err instanceof Error ? err.message : "Failed to load course data. ..."
ErrorMessage(e) ==
    IF e.isError THEN e.message
    ELSE "Failed to load course data. Please try again later."

\* IsMounted without the test
IsMountedIgnored(f) == TRUE

\* a flag that is already false when the promise settles: declared outside the
\* effect and cleared by the clean-up of an earlier run
IsMountedNever(f) == FALSE

\* the isMounted tests of fetchCourse
IsMounted(f) == f.isMounted

\* try { await ... } catch (err) { ... }: every rejection enters the catch
Catches(o) == o.kind = "reject"

\* Cleanup of an effect that returns no clean-up function
CleanupMissing(fs) == fs

\* the effect's clean-up: isMounted = false
Cleanup(fs) == [g \in DOMAIN fs |-> [fs[g] EXCEPT !.isMounted = FALSE]]

\* a call that carries the id of the render before the change (a stale closure)
NewFetchOldId(i, fs, c) ==
    [id |-> id, isMounted |-> TRUE, status |-> "pending",
     outcome |-> NoOutcome, order |-> 0, held |-> c,
     overlap |-> (fs # <<>> /\ fs[Len(fs)].status = "pending")]

\* one getCourseById call.  outcome, order, held and overlap record, for the
\* properties, what the call settled with, its rank among the settled calls,
\* the course held when it was issued and whether the call before it was
\* still pending then.
NewFetch(i, fs, c) ==
    [id |-> i, isMounted |-> TRUE, status |-> "pending",
     outcome |-> NoOutcome, order |-> 0, held |-> c,
     overlap |-> (fs # <<>> /\ fs[Len(fs)].status = "pending")]

\* the effect of a fetchCourse without its setError(null)
RunEffectKeepError(i, fs) ==
    IF i # NoId
    THEN /\ loading' = TRUE
         /\ error' = error
         /\ fetches' = Append(fs, NewFetch(i, fs, course))
    ELSE /\ error' = "Course ID is missing"
         /\ loading' = FALSE
         /\ fetches' = fs

\* the body of the effect for route parameter i, after the clean-up of the run
\* before it: fetchCourse() up to its await, or the else branch
RunEffect(i, fs) ==
    IF i # NoId
    THEN /\ loading' = TRUE
         /\ error' = Null
         /\ fetches' = Append(fs, NewFetch(i, fs, course))
    ELSE /\ error' = "Course ID is missing"
         /\ loading' = FALSE
         /\ fetches' = fs

\* the component mounts and the effect runs for the route's id
Mount ==
    /\ screen = "detail"
    /\ life = "init"
    /\ life' = "mounted"
    /\ RunEffect(id, fetches)
    /\ UNCHANGED <<screen, homeVars, id, activePhase, course, imageError,
                   unhandledRejection>>
    /\ Render

\* the route parameter changes: clean-up of the last run, then the effect again
ChangeId(newId) ==
    /\ life = "mounted"
    /\ newId # id
    /\ newId # NoId => Len(fetches) < MaxFetches
    /\ id' = newId
    /\ RunEffect(newId, Cleanup(fetches))
    /\ UNCHANGED <<screen, homeVars, activePhase, course, imageError, life,
                   unhandledRejection>>
    /\ Render

\* fetchCourse after its await: the promise of call g settles with outcome o.
\* A render that throws takes the component tree down (no error boundary).
Settle(g, o) ==
    /\ fetches[g].status = "pending"
    /\ LET f == fetches[g]
           settled == [fetches EXCEPT ![g].status = "settled", ![g].outcome = o,
                          ![g].order = 1 + Cardinality({h \in DOMAIN fetches :
                                               fetches[h].status = "settled"})]
           course1 == IF o.kind = "resolve" THEN o.value ELSE course
           error1 == IF o.kind = "reject" THEN ErrorMessage(o.value) ELSE error
       IN  IF IsMounted(f)
           THEN /\ course' = course1
                /\ error' = error1
                /\ loading' = FALSE
                /\ IF RenderThrowsOf(FALSE, error1, course1, activePhase)
                   THEN life' = "crashed" /\ fetches' = Cleanup(settled)
                   ELSE life' = life /\ fetches' = settled
           ELSE /\ fetches' = settled
                /\ UNCHANGED <<course, error, loading, life>>
    /\ unhandledRejection' =
           (unhandledRejection \/ (o.kind = "reject" /\ ~Catches(o)))
    /\ UNCHANGED <<screen, homeVars, id, activePhase, imageError>>
    /\ Render

\* a phase click of a component whose fetch effect depends on [id, activePhase]:
\* the effect runs again on every click
setActivePhaseRefetching(i) ==
    /\ activePhase' = i
    /\ loading' = TRUE
    /\ error' = Null
    /\ fetches' = IF Len(fetches) < MaxFetches
                  THEN Append(Cleanup(fetches), NewFetch(id, fetches, course))
                  ELSE fetches
    /\ UNCHANGED <<screen, homeVars, id, course, life, imageError,
                   unhandledRejection>>
    /\ Render

\* onClick={() => setActivePhase(i)}: the state setter stores whatever index it
\* is given; the page renders again with it
setActivePhase(i) ==
    /\ activePhase' = i
    /\ IF RenderThrowsOf(loading, error, course, i)
       THEN life' = "crashed" /\ fetches' = Cleanup(fetches)
       ELSE UNCHANGED <<life, fetches>>
    /\ UNCHANGED <<screen, homeVars, id, course, loading, error, imageError,
                   unhandledRejection>>
    /\ Render

\* a click on a phase header button: syllabusPhases.map renders one button per
\* phase, inside the loaded-course page
SelectPhase(i) ==
    /\ life = "mounted"
    /\ View = "course"
    /\ i \in 0..(syllabusPhases - 1)
    /\ setActivePhase(i)

\* the handler without its "if (!imageError)"
handleImageErrorUnguarded ==
    /\ life = "mounted"
    /\ View = "course"
    /\ imgSrc' = "fallback"
    /\ imageError' = TRUE
    /\ UNCHANGED <<screen, homeVars, id, activePhase, course, loading, error, life,
                   fetches, unhandledRejection>>

\* onError of the certificate image, rendered inside the loaded-course page:
\* if (!imageError) { e.currentTarget.src = DEFAULT_CERTIFICATE_IMAGE;
\* setImageError(true) }
handleImageError ==
    /\ life = "mounted"
    /\ View = "course"
    /\ IF ~imageError
       THEN imgSrc' = "fallback" /\ imageError' = TRUE
       ELSE UNCHANGED <<imgSrc, imageError>>
    /\ UNCHANGED <<screen, homeVars, id, activePhase, course, loading, error, life,
                   fetches, unhandledRejection>>

\* the Retry button of the error page: window.location.reload().  The page
\* starts again on the same route: fresh state, the effect runs, the promises
\* of the old page are gone with it.
handleRetry ==
    /\ life = "mounted"
    /\ View = "error"
    /\ id # NoId => Len(fetches) < MaxFetches
    /\ activePhase' = 0
    /\ course' = NullCourse
    /\ imageError' = FALSE
    /\ LET old == [g \in DOMAIN fetches |->
                      [fetches[g] EXCEPT !.isMounted = FALSE,
                          !.status = IF @ = "pending" THEN "dropped" ELSE @]]
       IN  IF id # NoId
           THEN /\ loading' = TRUE
                /\ error' = Null
                /\ fetches' = Append(old, NewFetch(id, old, NullCourse))
           ELSE /\ error' = "Course ID is missing"
                /\ loading' = FALSE
                /\ fetches' = old
    /\ UNCHANGED <<screen, homeVars, id, life, unhandledRejection>>
    /\ Render

\* the component unmounts: the effect's clean-up runs
Unmount ==
    /\ life = "mounted"
    /\ life' = "unmounted"
    /\ fetches' = Cleanup(fetches)
    /\ UNCHANGED <<screen, homeVars, id, activePhase, course, loading, error,
                   imageError, unhandledRejection>>
    /\ Render

NextDetail ==
    \/ Mount
    \/ \E i \in Ids \cup {NoId} : ChangeId(i)
    \/ \E g \in DOMAIN fetches : \E o \in DetailOutcomes(fetches[g].id) : Settle(g, o)
    \/ \E i \in 0..(MaxPhases - 1) : SelectPhase(i)
    \/ handleImageError
    \/ handleRetry
    \/ Unmount

\* ------------------------------------------------------------ the system
Init ==
    /\ screen \in {"home", "detail"}
    /\ courses = Array(<<>>)
    /\ homeLoading = TRUE
    /\ homeError = ""
    /\ filter = "All"
    /\ homeLife = "init"
    /\ homeFetches = <<>>
    /\ id \in Ids \cup {NoId}
    /\ activePhase = 0
    /\ course = NullCourse
    /\ loading = TRUE
    /\ error = Null
    /\ imageError = FALSE
    /\ imgSrc = "none"
    /\ life = "init"
    /\ fetches = <<>>
    /\ unhandledRejection = FALSE

Next == NextHome \/ NextDetail

Spec == Init /\ [][Next]_vars

\* the phase navigator driven directly: setActivePhase invoked with any index,
\* also one no rendered button carries
PhaseRequests == (0 - 1)..MaxPhases

InvokeSetActivePhase(i) ==
    /\ life = "mounted"
    /\ View = "course"
    /\ setActivePhase(i)

SpecSelect ==
    Init /\ [][Next \/ \E i \in PhaseRequests : InvokeSetActivePhase(i)]_vars

\* records that differ in their prices
PriceSamples(i) ==
    { FullCourse(i, 1, op, dp, NoSpecs, "Online", "English") :
          op \in {Undefined, 1000} \cup 0..MaxPrice,
          dp \in {750} \cup 0..MaxPrice }

\* a list of technical specifications as a record carries it
OwnSpecs == << [label |-> "Level", value |-> "Advanced", icon |-> "star"] >>

\* records that differ in their specification list, phases, status, language
SpecSamples(i) ==
    { FullCourse(i, p, 1000, 750, ts, st, lang) :
          p \in {Undefined} \cup 0..MaxPhases,
          ts \in {NoSpecs, SpecList(<<>>), SpecList(OwnSpecs)},
          st \in CourseStatus,
          lang \in {"English", "Hindi"} }

ProjectionOutcomes(i) ==
    { Resolve(c) : c \in PriceSamples(i) \cup SpecSamples(i) }
        \cup { Resolve(NullCourse) }

\* one load of the detail screen, the gateway answering with any of the
\* sample records: the states the memoized projections are read in
NextProjections ==
    \/ Mount
    \/ \E g \in DOMAIN fetches :
          \E o \in ProjectionOutcomes(fetches[g].id) : Settle(g, o)
    \/ \E i \in 0..(MaxPhases - 1) : SelectPhase(i)
    \/ handleImageError
    \/ Unmount

SpecProjections == Init /\ [][NextProjections]_vars

\* ================================================================ properties
LastFetch == fetches[Len(fetches)]

\* the last two getCourseById calls raced (the later one was issued while the
\* earlier one was pending), both have settled, and the screen is still the
\* one the later call was issued for
RaceOver ==
    /\ Len(fetches) >= 2
    /\ LastFetch.overlap
    /\ LastFetch.status = "settled"
    /\ fetches[Len(fetches) - 1].status = "settled"
    /\ life \in {"mounted", "crashed"}
    /\ id = LastFetch.id

\* C1: when fetch A and then fetch B were issued, B before A completed, then
\* once both have completed, in whichever order and with whichever outcomes,
\* course, error and loading are what B's completion produces: B's record and
\* no error after a resolved B, B's message and the course held when B was
\* issued after a rejected B; loading is false.
C1_LatestFetchWins ==
    RaceOver =>
        /\ loading = FALSE
        /\ LastFetch.outcome.kind = "resolve" =>
               (course = LastFetch.outcome.value /\ error = Null)
        /\ LastFetch.outcome.kind = "reject" =>
               (error = ErrorMessage(LastFetch.outcome.value)
                    /\ course = LastFetch.held)

\* A resolved with a course after B had been rejected
C1_Witness ==
    /\ RaceOver
    /\ life = "mounted"
    /\ fetches[Len(fetches) - 1].order > LastFetch.order
    /\ fetches[Len(fetches) - 1].outcome.kind = "resolve"
    /\ fetches[Len(fetches) - 1].outcome.value # NullCourse
    /\ LastFetch.outcome.kind = "reject"

\* a later call was issued after call g, or the id moved away from it
Superseded(g) == g < Len(fetches) \/ id # fetches[g].id

\* C2: a fetch generation settles at most once (once settled it stays settled
\* with the outcome it had, so it is observed at most once), and the step in
\* which a superseded or cancelled generation settles changes none of course /
\* course list, error and loading, in either controller.
C2_OneTransitionPerGeneration ==
    [][ /\ \A g \in DOMAIN fetches :
              /\ fetches[g].status # "pending" =>
                     /\ fetches'[g].status = fetches[g].status
                     /\ fetches'[g].outcome = fetches[g].outcome
              /\ ( /\ fetches[g].status = "pending"
                   /\ fetches'[g].status = "settled"
                   /\ (Superseded(g) \/ life # "mounted") )
                 => UNCHANGED <<course, error, loading>>
        /\ \A g \in DOMAIN homeFetches :
              /\ homeFetches[g].status # "pending" =>
                     homeFetches'[g].status = homeFetches[g].status
              /\ ( /\ homeFetches[g].status = "pending"
                   /\ homeFetches'[g].status = "settled"
                   /\ (g < Len(homeFetches) \/ homeLife # "mounted") )
                 => UNCHANGED <<courses, homeError, homeLoading>>
      ]_vars

\* a superseded call resolved while the call that superseded it is pending
C2_Witness ==
    /\ Len(fetches) >= 2
    /\ LastFetch.overlap
    /\ LastFetch.status = "pending"
    /\ fetches[Len(fetches) - 1].status = "settled"
    /\ fetches[Len(fetches) - 1].outcome.kind = "resolve"
    /\ loading

\* C3: once the catalog or the detail screen is unmounted, no step writes one
\* of its state variables and no rejection is left unhandled, whatever a
\* pending fetch settles with.
C3_NoWriteAfterTeardown ==
    [][ /\ life = "unmounted" =>
              /\ UNCHANGED <<activePhase, course, loading, error, imageError>>
              /\ ~unhandledRejection'
        /\ homeLife = "unmounted" =>
              /\ UNCHANGED <<courses, homeLoading, homeError, filter>>
              /\ ~unhandledRejection'
      ]_vars

\* the catalog fetch settled after the unmount: nothing took loading down
C3_Witness ==
    /\ homeLife = "unmounted"
    /\ Len(homeFetches) = 1
    /\ homeFetches[1].status = "settled"
    /\ homeLoading

\* the positions of L whose course has status f
MatchIdx(L, f) == {i \in 1..Len(L) : L[i].status = f}

\* F is the subsequence of L of the courses with status f, in L's order
IsStatusSubsequence(F, L, f) ==
    /\ Len(F) = Cardinality(MatchIdx(L, f))
    /\ \A k \in 1..Len(F) : F[k].status = f
    /\ \E m \in [1..Len(F) -> 1..Len(L)] :
          /\ \A j, k \in 1..Len(F) : j < k => m[j] < m[k]
          /\ \A k \in 1..Len(F) : F[k] = L[m[k]]

\* C4: for every course list and every filter Online, Offline or Hybrid,
\* filteredCourses is exactly the subsequence of the list with that status, in
\* the list's order; for the filter All it is the list.
C4_FilterCorrect ==
    courses.isArray =>
        IF filter = "All"
        THEN filteredCourses = courses.items
        ELSE IsStatusSubsequence(filteredCourses, courses.items, filter)

\* the first and the third course of three are kept, the second is dropped
C4_Witness ==
    /\ courses.isArray
    /\ Len(courses.items) = 3
    /\ filter = "Online"
    /\ courses.items[2].status # "Online"
    /\ Len(filteredCourses) = 2

\* C5: when the course list is absent (no array), not yet loaded or empty,
\* filteredCourses is the empty sequence for every filter value.
C5_EmptySafe ==
    (~courses.isArray \/ courses.items = <<>>) =>
        /\ filteredCourses = <<>>
        /\ \A f \in FilterType : FilteredCoursesOf(courses, f) = <<>>

\* the gateway answered with no array and a status filter is selected
C5_Witness ==
    /\ ~courses.isArray
    /\ ~homeLoading
    /\ filter = "Hybrid"

\* C6: a setFilter step sets the filter to the value given and changes neither
\* the course list, nor loading, nor the error, and issues no gateway call.
C6_SetFilterFrame ==
    [][ \A f \in FilterType :
            handleFilterChange(f) =>
                /\ filter' = f
                /\ UNCHANGED <<courses, homeLoading, homeError, homeFetches>>
      ]_vars

\* the filter was changed while the fetch is in flight
C6_Witness ==
    /\ homeLife = "mounted"
    /\ homeLoading
    /\ filter = "Offline"
    /\ Len(homeFetches) = 1

\* C7: whenever the loaded-course page reads the active phase (the syllabus
\* section is rendered), 0 <= activePhase < number of phases.
C7_ActivePhaseInRange ==
    (View = "course" /\ syllabusPhases > 0) =>
        activePhase \in 0..(syllabusPhases - 1)

\* C8: a step that loads a course (loading ends with a course and no error)
\* leaves activePhase at 0.
C8_PhaseResetOnLoad ==
    [][ (loading /\ ~loading' /\ course' # NullCourse /\ ~Truthy(error'))
            => activePhase' = 0 ]_vars

LatestSettled ==
    /\ fetches # <<>>
    /\ LastFetch.status = "settled"
    /\ life = "mounted"
    /\ id = LastFetch.id

\* C10: a fetch that resolves with an absent record ends in the not-found view
\* with no error, and a fetch that is rejected ends in the error view.
C10_NotFoundVersusFailure ==
    LatestSettled =>
        /\ LastFetch.outcome = Resolve(NullCourse) =>
               (View = "notfound" /\ error = Null)
        /\ LastFetch.outcome.kind = "reject" => View = "error"

\* the message the claim expects of a rejection: the error's own message when
\* it carries one, the fallback when it carries none
ExpectedMessage(e, fallback) ==
    IF e.isError /\ e.message # "" THEN e.message ELSE fallback

\* C11: when the latest fetch of either controller is rejected, the error is
\* the error's own message when it carries one and the fixed fallback message
\* when it carries none (no Error, or an Error with an empty message), and the
\* view is the error view.
C11_FailureMessage ==
    [][ /\ \A g \in DOMAIN fetches : \A e \in Thrown :
              ( /\ Settle(g, Reject(e))
                /\ ~Superseded(g)
                /\ life = "mounted" )
              => /\ error' = ExpectedMessage(e,
                        "Failed to load course data. Please try again later.")
                 /\ View' = "error"
        /\ \A g \in DOMAIN homeFetches : \A e \in Thrown :
              ( /\ HomeSettle(g, Reject(e))
                /\ g = Len(homeFetches)
                /\ homeLife = "mounted" )
              => /\ homeError' = ExpectedMessage(e, "Failed to fetch courses")
                 /\ ~homeLoading'
      ]_vars

\* C12: with an empty or absent id the detail screen is in Failure with the
\* message "Course ID is required", loading is false and no call is in flight.
C12_MissingIdMessage ==
    (life = "mounted" /\ id = NoId) =>
        /\ error = "Course ID is required"
        /\ loading = FALSE
        /\ \A g \in DOMAIN fetches : ~fetches[g].isMounted

\* C13: for a loaded course whose originalPrice is 0 or absent, discountPercent
\* is 0 (no NaN, no infinity) and the banner condition discountPercent > 0 is
\* false.
C13_ZeroPriceDiscount ==
    (course # NullCourse /\ course.originalPrice \in {0, Undefined}) =>
        /\ discountPercent = Num(0)
        /\ ~DiscountBanner(discountPercent)

\* r is an integer nearest to the quotient n / d, d > 0
IsNearest(r, n, d) ==
    /\ 2 * (n - r * d) <= d
    /\ 2 * (r * d - n) <= d

\* C14: for a loaded course with originalPrice > 0 and 0 <= discountedPrice <=
\* originalPrice, discountPercent is a finite integer nearest to
\* (originalPrice - discountedPrice) * 100 / originalPrice, lies in 0..100 and
\* is 25 for 1000 / 750; with no course held it is 0.
C14_DiscountMath ==
    /\ course = NullCourse => discountPercent = Num(0)
    /\ ( /\ course # NullCourse
         /\ course.originalPrice > 0
         /\ course.discountedPrice >= 0
         /\ course.discountedPrice <= course.originalPrice )
       => /\ discountPercent.kind = "finite"
          /\ IsNearest(discountPercent.value,
                 (course.originalPrice - course.discountedPrice) * 100,
                 course.originalPrice)
          /\ discountPercent.value \in 0..100
          /\ (course.originalPrice = 1000 /\ course.discountedPrice = 750)
                 => discountPercent.value = 25

\* 3 / 1: two thirds off, 66.67 rounds to 67
C14_Witness ==
    /\ View = "course"
    /\ course # NullCourse
    /\ course.originalPrice = 3
    /\ course.discountedPrice = 1
    /\ discountPercent = Num(67)

\* the labels of a list of specifications
Labels(specs) == [k \in 1..Len(specs) |-> specs[k].label]

\* C15: technicalSpecs is the record's own list exactly when that list is
\* present and non-empty, and the synthesized triple (Duration, Mode,
\* Language) when the list is absent or empty.
C15_TechnicalSpecsChoice ==
    course # NullCourse =>
        IF course.technicalSpecs.present /\ course.technicalSpecs.items # <<>>
        THEN technicalSpecs = course.technicalSpecs.items
        ELSE Labels(technicalSpecs) = <<"Duration", "Mode", "Language">>

\* the number of phases of the held course: 0 without a course or a list
HeldPhaseCount ==
    IF course = NullCourse THEN 0
    ELSE IF course.syllabusPhases = Undefined THEN 0
    ELSE course.syllabusPhases

\* C16: totalWeeks is 4 times the number of syllabus phases of the held
\* course, 0 for no phases or no list, also right after the held course was
\* replaced by the record the latest fetch resolved with.
C16_TotalWeeks ==
    /\ totalWeeks = 4 * HeldPhaseCount
    /\ ( /\ LatestSettled
         /\ LastFetch.outcome.kind = "resolve"
         /\ LastFetch.outcome.value # NullCourse )
       => totalWeeks =
              4 * (IF LastFetch.outcome.value.syllabusPhases = Undefined THEN 0
                   ELSE LastFetch.outcome.value.syllabusPhases)

\* a course of 2 phases was replaced by a course of 1 phase
C16_Witness ==
    /\ Len(fetches) = 2
    /\ LatestSettled
    /\ fetches[1].outcome = Resolve(CourseDetail(fetches[1].id, 2))
    /\ fetches[1].order = 1
    /\ LastFetch.outcome = Resolve(CourseDetail(id, 1))
    /\ totalWeeks = 4

\* C17: a click on a phase header sets the active index to the clicked phase
\* and nothing else: the held course, the loading flag, the error and the
\* calls issued so far are as they were.
C17_SelectPhaseFrame ==
    [][ \A i \in 0..(MaxPhases - 1) :
            SelectPhase(i) =>
                /\ activePhase' = i
                /\ UNCHANGED <<course, loading, error, fetches>>
      ]_vars

\* the second phase of a loaded course was selected
C17_Witness ==
    /\ life = "mounted"
    /\ View = "course"
    /\ activePhase = 1
    /\ syllabusPhases = 2

\* the Failure state of the detail screen and of the catalog
DetailFailure == life = "mounted" /\ ~loading /\ error # Null

HomeFailure == homeLife = "mounted" /\ ~homeLoading /\ homeError # ""

\* C18: no completion issues a call: a step that issues a gateway call is the
\* mount, a retry or (detail) a change of id; and from Failure every step that
\* is neither a retry nor a change of id leaves the error and the loading flag
\* as they are.
C18_NoAutomaticRetry ==
    [][ /\ Len(fetches') > Len(fetches) =>
               (Mount \/ handleRetry \/ \E i \in Ids : ChangeId(i))
        /\ Len(homeFetches') > Len(homeFetches) => (HomeMount \/ HomeRetry)
        /\ ( /\ DetailFailure
             /\ ~handleRetry
             /\ ~(\E i \in Ids \cup {NoId} : ChangeId(i)) )
           => (UNCHANGED <<error, loading>> /\ Len(fetches') = Len(fetches))
        /\ (HomeFailure /\ ~HomeRetry)
           => ( /\ UNCHANGED <<homeError, homeLoading>>
                /\ Len(homeFetches') = Len(homeFetches) )
      ]_vars

\* the detail screen is in Failure after a rejection, and the call of the id
\* before it completed later without effect
C18_Witness ==
    /\ DetailFailure
    /\ Len(fetches) = 2
    /\ fetches[2].outcome.kind = "reject"
    /\ fetches[2].order = 1
    /\ fetches[1].status = "settled"
    /\ fetches[1].order = 2

\* C19 as stated: every retry from Failure enters Loading and issues exactly
\* one new call with the same arguments.
C19_RetryIssuesOneCall ==
    [][ /\ handleRetry =>
               /\ loading' /\ error' = Null
               /\ Len(fetches') = Len(fetches) + 1
               /\ fetches'[Len(fetches')].id = id
               /\ fetches'[Len(fetches')].status = "pending"
        /\ HomeRetry =>
               /\ homeLoading' /\ homeError' = ""
               /\ Len(homeFetches') = Len(homeFetches) + 1
               /\ homeFetches'[Len(homeFetches')].query =
                      [sort |-> "-createdAt", limit |-> 6]
               /\ homeFetches'[Len(homeFetches')].status = "pending"
      ]_vars

\* C19: a retry from the Failure of a gateway call (the catalog, or the detail
\* screen with a non-empty id) enters Loading and issues exactly one new call,
\* with the same query (sort=-createdAt, limit=6) or the same id; a retry from
\* the missing-id Failure issues no call and ends in the same Failure.
C19_RetryOfGatewayFailure ==
    [][ /\ (handleRetry /\ id # NoId) =>
               /\ loading' /\ error' = Null
               /\ Len(fetches') = Len(fetches) + 1
               /\ fetches'[Len(fetches')].id = id
               /\ fetches'[Len(fetches')].status = "pending"
        /\ (handleRetry /\ id = NoId) =>
               /\ ~loading' /\ error' = error
               /\ Len(fetches') = Len(fetches)
        /\ HomeRetry =>
               /\ homeLoading' /\ homeError' = ""
               /\ Len(homeFetches') = Len(homeFetches) + 1
               /\ homeFetches'[Len(homeFetches')].query =
                      [sort |-> "-createdAt", limit |-> 6]
               /\ homeFetches'[Len(homeFetches')].status = "pending"
      ]_vars

\* the catalog was retried after a failure: the second call is in flight
C19_Witness ==
    /\ homeLife = "mounted"
    /\ Len(homeFetches) = 2
    /\ homeFetches[1].status = "settled"
    /\ homeFetches[2].status = "pending"
    /\ homeFetches[2].query = HomeQuery
    /\ homeLoading

\* C20 as stated: whenever the most recently issued call is in flight, the
\* loading flag is true and no error is set.
C20_InFlightLoading ==
    /\ (fetches # <<>> /\ LastFetch.status = "pending")
       => (loading /\ error = Null)
    /\ (homeFetches # <<>> /\ homeFetches[Len(homeFetches)].status = "pending")
       => (homeLoading /\ homeError = "")

\* C20: whenever the most recently issued call is in flight and is the call of
\* the current id (no load of an empty id came after it), the loading flag is
\* true and no error is set; in the catalog, whenever the most recently issued
\* call is in flight.
C20_CurrentFetchLoading ==
    /\ (fetches # <<>> /\ LastFetch.status = "pending" /\ id = LastFetch.id)
       => (loading /\ error = Null)
    /\ (homeFetches # <<>> /\ homeFetches[Len(homeFetches)].status = "pending")
       => (homeLoading /\ homeError = "")

\* a call was rejected, the id changed, and the call of the new id is in flight
C20_Witness ==
    /\ life = "mounted"
    /\ Len(fetches) = 2
    /\ fetches[1].outcome.kind = "reject"
    /\ fetches[2].status = "pending"
    /\ id = fetches[2].id
    /\ loading /\ error = Null

\* C21: no rejection of a gateway call leaves its async function uncaught,
\* whether the call is current, superseded or cancelled, and a rejection of
\* the current call puts the controller in the error state: an error is set
\* (one the view shows) and loading is false.
C21_RejectionsBecomeState ==
    [][ /\ ~unhandledRejection'
        /\ \A g \in DOMAIN fetches : \A e \in Thrown :
              ( /\ Settle(g, Reject(e))
                /\ ~Superseded(g)
                /\ life = "mounted" )
              => (Truthy(error') /\ ~loading')
        /\ \A g \in DOMAIN homeFetches : \A e \in Thrown :
              ( /\ HomeSettle(g, Reject(e))
                /\ g = Len(homeFetches)
                /\ homeLife = "mounted" )
              => (homeError' # "" /\ ~homeLoading')
      ]_vars

\* one outcome of each kind is enough for what happens to the loading flag: a
\* course (of 2 phases or of 1), no course, a list, no list, each thrown value
LiveOutcomes(i) ==
    { Resolve(CourseDetail(i, 2)), Resolve(CourseDetail(i, 1)),
      Resolve(NullCourse) }
        \cup { Reject(e) : e \in Thrown }

HomeLiveOutcomes ==
    { Resolve(Array(CourseList(<<"Online", "Hybrid">>))), Resolve(NotArray) }
        \cup { Reject(e) : e \in Thrown }

\* every gateway call eventually completes: the promise of a pending call is
\* settled by the runtime, whatever the component does meanwhile
SettleSome ==
    \E g \in DOMAIN fetches : \E o \in LiveOutcomes(fetches[g].id) : Settle(g, o)

HomeSettleSome ==
    \E g \in DOMAIN homeFetches : \E o \in HomeLiveOutcomes : HomeSettle(g, o)

NextLive ==
    \/ HomeMount
    \/ HomeSettleSome
    \/ \E f \in FilterType : handleFilterChange(f)
    \/ HomeRetry
    \/ HomeUnmount
    \/ Mount
    \/ \E i \in Ids \cup {NoId} : ChangeId(i)
    \/ SettleSome
    \/ \E i \in 0..(MaxPhases - 1) : SelectPhase(i)
    \/ handleImageError
    \/ handleRetry
    \/ Unmount

SpecLive ==
    Init /\ [][NextLive]_vars /\ WF_vars(SettleSome) /\ WF_vars(HomeSettleSome)

\* the terminal state of the detail screen, by what the state holds
Terminal ==
    IF loading THEN "Loading"
    ELSE IF error # Null THEN "Failure"
    ELSE IF course = NullCourse THEN "NotFound"
    ELSE "Success"

\* C22: while the screen stays mounted, Loading is always followed by a state
\* that is not Loading; and a state that is not Loading stays as it is (same
\* terminal state, same error, same held course, same catalog) until a retry
\* or a change of id issues the next load.
C22_SettlesInTerminal ==
    /\ (life = "mounted" /\ loading) ~> (~loading \/ life # "mounted")
    /\ (homeLife = "mounted" /\ homeLoading)
           ~> (~homeLoading \/ homeLife # "mounted")
    /\ [][ /\ ( /\ life = "mounted" /\ ~loading
                /\ ~handleRetry
                /\ ~(\E i \in Ids \cup {NoId} : ChangeId(i)) )
              => (Terminal' = Terminal /\ UNCHANGED <<error, course>>)
           /\ (homeLife = "mounted" /\ ~homeLoading /\ ~HomeRetry)
              => UNCHANGED <<homeLoading, homeError, courses>>
         ]_vars

\* the second load of the detail screen ended in NotFound
C22_Witness ==
    /\ life = "mounted"
    /\ Len(fetches) = 2
    /\ LatestSettled
    /\ Terminal = "NotFound"

\* C23: for a held course that carries no specification list, technicalSpecs
\* has exactly three entries, Duration, Mode, Language in that order: Duration
\* is the number of syllabus phases in months, 6 when there are no phases or
\* no phase list, Mode is the course status, Language the course language.
C23_FallbackTriple ==
    (course # NullCourse /\ ~course.technicalSpecs.present) =>
        /\ Len(technicalSpecs) = 3
        /\ Labels(technicalSpecs) = <<"Duration", "Mode", "Language">>
        /\ technicalSpecs[1].value =
               <<IF HeldPhaseCount > 0 THEN HeldPhaseCount ELSE 6, "Months">>
        /\ technicalSpecs[2].value = course.status
        /\ technicalSpecs[3].value = course.language

\* a Hybrid course in Hindi with an empty phase list and no specification list
C23_Witness ==
    /\ life = "mounted"
    /\ View = "course"
    /\ course.technicalSpecs = NoSpecs
    /\ course.syllabusPhases = 0
    /\ course.status = "Hybrid"
    /\ course.language = "Hindi"
    /\ technicalSpecs[1].value = <<6, "Months">>

RECURSIVE Strings(_)
Strings(n) ==
    IF n = 0 THEN {<<>>}
    ELSE LET shorter == Strings(n - 1)
         IN  shorter \cup { Append(t, c) : t \in { x \in shorter : Len(x) = n - 1 },
                                           c \in Chars }

\* records that differ in their name
NameOutcomes(i) ==
    { Resolve([CourseDetail(i, 1) EXCEPT !.name = n]) : n \in Strings(MaxNameLen) }
        \cup { Resolve(NullCourse) }

\* one load of the detail screen, the gateway answering with a course of any
\* name: the states the courseNameParts memo is read in
NextNames ==
    \/ Mount
    \/ \E g \in DOMAIN fetches : \E o \in NameOutcomes(fetches[g].id) : Settle(g, o)
    \/ \E i \in 0..(MaxPhases - 1) : SelectPhase(i)
    \/ handleImageError
    \/ Unmount

SpecNames == Init /\ [][NextNames]_vars

\* the characters of the parts, in order
RECURSIVE Flatten(_)
Flatten(parts) ==
    IF parts = <<>> THEN <<>> ELSE Head(parts) \o Flatten(Tail(parts))

IsWhitespace(c) == c = " " \/ c = Tab

\* C25: courseNameParts is empty when no course is held; otherwise no part is
\* empty, no part contains whitespace, and the parts in order are the name
\* with its whitespace taken out.
C25_NamePartsAreWords ==
    IF course = NullCourse THEN courseNameParts = <<>>
    ELSE /\ \A k \in 1..Len(courseNameParts) :
               /\ courseNameParts[k] # <<>>
               /\ \A q \in 1..Len(courseNameParts[k]) :
                      ~IsWhitespace(courseNameParts[k][q])
         /\ Flatten(courseNameParts) =
                SelectSeq(course.name, LAMBDA c : ~IsWhitespace(c))

\* C26: whenever the mounted detail screen renders the loaded-course view, the
\* held course is what the call issued for the current id resolved with.
C26_CourseOfCurrentId ==
    (life = "mounted" /\ View = "course") =>
        /\ LatestSettled
        /\ LastFetch.outcome = Resolve(course)
        /\ course.id = id

\* C27: a mounted screen renders exactly one view, chosen by priority: on the
\* detail screen loading, then error, then not-found, then the loaded course;
\* on the catalog the spinner, then the error banner, then the grid.  The
\* error view is never there together with the spinner or with course content.
C27_OneViewByPriority ==
    /\ homeLife = "mounted" =>
           /\ Cardinality(HomeRendered) = 1
           /\ HomeRendered =
                  { IF homeLoading THEN "spinner"
                    ELSE IF homeError # "" THEN "banner" ELSE "grid" }
    /\ life = "mounted" =>
           /\ loading => View = "loading"
           /\ (~loading /\ Truthy(error)) => View = "error"
           /\ (~loading /\ ~Truthy(error) /\ course = NullCourse)
                  => View = "notfound"
           /\ (~loading /\ ~Truthy(error) /\ course # NullCourse)
                  => View = "course"

\* the catalog shows the error banner alone, the Hybrid filter selected
C27_Witness ==
    /\ homeLife = "mounted"
    /\ HomeRendered = {"banner"}
    /\ filter = "Hybrid"

\* the step appends exactly one pending call, and it carries id i
IssuesOneCall(i) ==
    /\ Len(fetches') = Len(fetches) + 1
    /\ fetches'[Len(fetches')].id = i
    /\ fetches'[Len(fetches')].status = "pending"

\* C28: the mount with a non-empty id (also the mount of the reloaded page)
\* and every change of the id to a non-empty value issue exactly one
\* getCourseById call, carrying that id; a mount or change with an empty id
\* issues none; and no other step (phase selection, image error, completion
\* of a call, unmount) issues a call.
C28_OneCallPerId ==
    [][ /\ (Mount /\ id # NoId) => IssuesOneCall(id)
        /\ (handleRetry /\ id # NoId) => IssuesOneCall(id)
        /\ \A i \in Ids : ChangeId(i) => IssuesOneCall(i)
        /\ ((Mount /\ id = NoId) \/ ChangeId(NoId))
               => Len(fetches') = Len(fetches)
        /\ Len(fetches') # Len(fetches) =>
               (Mount \/ handleRetry \/ \E i \in Ids : ChangeId(i))
      ]_vars

\* the id changed from a to b while the call for a was pending: one call each
C28_Witness ==
    /\ life = "mounted"
    /\ id = "b"
    /\ Len(fetches) = 2
    /\ fetches[1].id = "a" /\ fetches[1].status = "pending"
    /\ fetches[2].id = "b" /\ fetches[2].status = "pending"

\* C29: within one instance of the detail screen (up to a reload) the
\* imageError flag only goes from false to true, only by an image load error,
\* and stays true also when the id changes; the fallback source is put in
\* only by an error while the flag is false; and an image load error while
\* the flag is true changes neither the image source nor any state.
C29_ImageFallbackOnce ==
    [][ /\ (imageError /\ ~handleRetry) => imageError'
        /\ (imageError' # imageError /\ ~handleRetry) => handleImageError
        /\ (handleImageError /\ ~imageError)
               => (imageError' /\ imgSrc' = "fallback")
        /\ (imgSrc' = "fallback" /\ imgSrc # "fallback") => ~imageError
        /\ (handleImageError /\ imageError) => UNCHANGED vars
        /\ \A i \in Ids \cup {NoId} : ChangeId(i) => imageError' = imageError
      ]_vars

\* the flag was set for the image of one course and is still set while the
\* page of the next course shows that course's own image
C29_Witness ==
    /\ life = "mounted"
    /\ View = "course"
    /\ imageError
    /\ imgSrc = "course"
    /\ Len(fetches) = 2

====
